---------------------------- MODULE Spec2Model ----------------------------
(***************************************************************************)
(* A model of the TidyPlot builder of src/tidyplots/tidyplots.py.          *)
(*                                                                         *)
(* The builder holds a dataset, the column names x, y and color, the       *)
(* aesthetic mapping and the plot expression.  The plot expression is the  *)
(* sequence of the directives that were added with "+" to ggplot(data,     *)
(* mapping), in the order of the additions.  Every public method is one    *)
(* action.  A call either returns (the builder itself, or the plot for     *)
(* show) or raises; what it returned or raised is kept in "last", and the  *)
(* plot expression the call started from in "before".                      *)
(***************************************************************************)
EXTENDS Integers, Sequences, FiniteSets

(***************************************************************************)
(* Bounds of the model.                                                    *)
(***************************************************************************)
\* the datasets have 0 .. MaxGroups distinct values in their x column
MaxGroups == 3
\* every distinct x value occurs in RowsPerGroup rows
RowsPerGroup == 2
\* the number of method calls made on one builder
MaxCalls == 2
\* the longest quantile list handed to add_quantiles
MaxQuantiles == 2

VARIABLES
    data,      \* self.data: the caller's dataset, a sequence of rows
    x,         \* self.x
    y,         \* self.y (None when no y was given)
    color,     \* self.color (None when no color was given)
    mapping,   \* self.mapping: the set of <<channel, column>> bindings
    plot,      \* self.plot: the directives added to ggplot(data, mapping)
    files,     \* the file system: path -> rendered content
    last,      \* the last call: method, arguments, outcome, warning
    before,    \* self.plot when the last call started
    fresh,     \* the paths saved since the last add_/adjust_/scale_ call
    ncalls     \* the number of calls made so far

vars == <<data, x, y, color, mapping, plot, files, last, before, fresh, ncalls>>

None == "None"

\* the columns of the datasets
Columns == {"x", "y", "g"}

(***************************************************************************)
(* The datasets: n distinct values 1 .. n in column x, each in             *)
(* RowsPerGroup rows.  All columns are numeric, so that the values of a    *)
(* column compare with each other and the statistics accept them.          *)
(***************************************************************************)
Dataset(n) ==
    [i \in 1..(n * RowsPerGroup) |->
        [x |-> ((i - 1) % n) + 1, y |-> i, g |-> ((i - 1) % 2) + 1]]

Datasets == {Dataset(n) : n \in 0..MaxGroups}

\* Python's truth value of an optional column name ("if color:")
Truthy(c) == c # None /\ c # ""

(***************************************************************************)
(* Directives.  A directive is the plotnine primitive a method builds,     *)
(* with the arguments that tell two of them apart.                         *)
(***************************************************************************)
Directive(prim, arg, num) == [prim |-> prim, arg |-> arg, num |-> num]

D(prim, arg) == Directive(prim, arg, 0)

\* plotnine's "+" on a plot expression, seen as the list of things added
PlotAddPrepend(p, d) == <<d>> \o p

PlotAdd(p, d) == Append(p, d)

IsPrefix(s, t) == Len(s) <= Len(t) /\ SubSeq(t, 1, Len(s)) = s

(***************************************************************************)
(* The outcome of a method body: the plot expression it leaves in          *)
(* self.plot, what it returns ("self", "plot") or the error it raises,     *)
(* and whether it called warnings.warn.                                    *)
(***************************************************************************)
Return(p) == [plot |-> p, outcome |-> "self", warned |-> FALSE]

Warn(p) == [plot |-> p, outcome |-> "self", warned |-> TRUE]

Raise(p, e) == [plot |-> p, outcome |-> e, warned |-> FALSE]

(***************************************************************************)
(* __init__                                                                *)
(***************************************************************************)
InitMappingAlwaysColor(yy, cc) ==
    IF yy # None
    THEN {<<"x", "x">>, <<"y", yy>>} \cup (IF Truthy(cc) THEN {<<"color", cc>>} ELSE {})
    ELSE {<<"x", "x">>} \cup (IF Truthy(cc) THEN {<<"color", cc>>} ELSE {})

InitMapping(yy, cc) ==
    LET m0 == {<<"x", "x">>}
        m1 == IF yy # None THEN {<<"x", "x">>, <<"y", yy>>} ELSE m0
    IN  IF Truthy(cc)
        THEN IF yy # None
             THEN {<<"x", "x">>, <<"y", yy>>, <<"color", cc>>}
             ELSE {<<"x", "x">>, <<"fill", cc>>}
        ELSE m1

InitPlot(yy, cc) ==
    LET p0 == PlotAdd(<<>>, D("theme_minimal", ""))
    IN  IF Truthy(cc) /\ yy = None
        THEN PlotAdd(p0, D("aes", "fill"))
        ELSE p0

\* The arguments of the constructor.  What a method does after construction
\* depends neither on self.color nor on the rows' color column, so the
\* builders with a color argument are built on the largest dataset.
CtorArgs ==
    {<<d, yy, None>> : d \in Datasets, yy \in {None, "y"}}
        \cup {<<Dataset(MaxGroups), yy, "g">> : yy \in {None, "y"}}

Init ==
    \E a \in CtorArgs :
      LET d == a[1]  yy == a[2]  cc == a[3] IN
        /\ data = d
        /\ x = "x"
        /\ y = yy
        /\ color = cc
        /\ mapping = InitMapping(yy, cc)
        /\ plot = InitPlot(yy, cc)
        /\ files = <<>>
        /\ last = [op |-> "__init__", args |-> <<>>, outcome |-> "self", warned |-> FALSE]
        /\ before = <<>>
        /\ fresh = {}
        /\ ncalls = 0

(***************************************************************************)
(* A call of an add_, adjust_ or scale_ method: res is the outcome of the  *)
(* method body started on self.plot.                                       *)
(***************************************************************************)
Call(op, args, res) ==
    /\ ncalls < MaxCalls
    /\ ncalls' = ncalls + 1
    /\ before' = plot
    /\ plot' = res.plot
    /\ last' = [op |-> op, args |-> args, outcome |-> res.outcome, warned |-> res.warned]
    /\ fresh' = {}
    /\ UNCHANGED <<data, x, y, color, mapping, files>>

(***************************************************************************)
(* The methods that add one layer built from their arguments alone.  The   *)
(* arguments are passed through to plotnine; the calls are made with the   *)
(* defaults, and with fixed values where the method has none.              *)
(***************************************************************************)
add_mean_bar ==
    Call("add_mean_bar", <<>>, Return(PlotAdd(plot, D("stat_summary", "mean/bar"))))

add_sem_errorbar ==
    Call("add_sem_errorbar", <<>>, Return(PlotAdd(plot, D("stat_summary", "mean_se/errorbar"))))

add_sd_errorbar ==
    Call("add_sd_errorbar", <<>>, Return(PlotAdd(plot, D("stat_summary", "sd_fun/errorbar"))))

add_ci_errorbar ==
    Call("add_ci_errorbar", <<>>, Return(PlotAdd(plot, D("stat_summary", "ci_fun/errorbar"))))

add_errorbar ==
    Call("add_errorbar", <<>>, Return(PlotAdd(plot, D("geom_errorbar", "aes(ymin,ymax)"))))

add_data_points_beeswarm ==
    Call("add_data_points_beeswarm", <<>>,
         Return(PlotAdd(plot, D("geom_point", "position_jitter"))))

add_data_points_jitter ==
    Call("add_data_points_jitter", <<>>, Return(PlotAdd(plot, D("geom_jitter", ""))))

add_violin ==
    Call("add_violin", <<>>, Return(PlotAdd(plot, D("geom_violin", ""))))

add_boxplot ==
    Call("add_boxplot", <<>>, Return(PlotAdd(plot, D("geom_boxplot", ""))))

add_density_skip ==
    Call("add_density", <<>>, Return(plot))

add_density ==
    Call("add_density", <<>>, Return(PlotAdd(plot, D("geom_density", ""))))

add_density_2d ==
    Call("add_density_2d", <<>>, Return(PlotAdd(plot, D("geom_density_2d", ""))))

add_scatter ==
    Call("add_scatter", <<>>, Return(PlotAdd(plot, D("geom_point", ""))))

add_line ==
    Call("add_line", <<>>, Return(PlotAdd(plot, D("geom_line", ""))))

add_smooth ==
    Call("add_smooth", <<>>, Return(PlotAdd(plot, D("geom_smooth", "loess"))))

(***************************************************************************)
(* add_count: both enumerated arguments are checked before the layer is    *)
(* built.  The stat name is handed to plotnine as it is: "count" names a   *)
(* stat of plotnine; whether "proportion" does is plotnine's matter, and a *)
(* rejection is raised while the layer is built, before self.plot is       *)
(* assigned.                                                               *)
(***************************************************************************)
StatArgs == {"count", "proportion", "identity"}

PositionArgs == {"stack", "dodge", "fill"}

add_count_body(p, stat, position, accepted) ==
    IF stat \notin {"count", "proportion"}
    THEN Raise(p, "ValueError")
    ELSE IF position \notin {"stack", "dodge"}
         THEN Raise(p, "ValueError")
         ELSE LET pos == IF position = "dodge" THEN "position_dodge" ELSE "position_stack"
              IN  IF stat # "count" /\ ~accepted
                  THEN Raise(p, "PlotnineError")
                  ELSE Return(PlotAdd(p, D("geom_bar", stat \o "/" \o pos)))

add_count ==
    \E stat \in StatArgs, position \in PositionArgs, accepted \in BOOLEAN :
        Call("add_count", [stat |-> stat, position |-> position],
             add_count_body(plot, stat, position, accepted))

\* add_text as a method body: one annotation
add_text_body(p, label) == Return(PlotAdd(p, D("annotate_text", label)))

add_text ==
    Call("add_text", <<>>, add_text_body(plot, "label"))

add_hline ==
    Call("add_hline", <<>>, Return(PlotAdd(plot, D("geom_hline", "solid"))))

add_vline ==
    Call("add_vline", <<>>, Return(PlotAdd(plot, D("geom_vline", "solid"))))

add_ribbon ==
    Call("add_ribbon", <<>>, Return(PlotAdd(plot, D("geom_ribbon", "aes(ymin,ymax)"))))

add_rug ==
    Call("add_rug", <<>>, Return(PlotAdd(plot, D("geom_rug", "bl"))))

add_step ==
    Call("add_step", <<>>, Return(PlotAdd(plot, D("geom_step", "hv"))))

(***************************************************************************)
(* add_hex adds a 2-D binning layer and two continuous position scales.    *)
(***************************************************************************)
add_hex_body_one(p) == Return(PlotAdd(p, D("stat_bin_2d", "bins")))

add_hex_body(p) ==
    Return(PlotAdd(PlotAdd(PlotAdd(p, D("stat_bin_2d", "bins")),
                           D("scale_x_continuous", "")),
                   D("scale_y_continuous", "")))

add_hex ==
    Call("add_hex", <<>>, add_hex_body(plot))

(***************************************************************************)
(* Columns of the dataset.  data[c] raises KeyError for a name that is no  *)
(* column, None included.                                                  *)
(***************************************************************************)
HasColumn(c) == c \in Columns

Column(d, c) == [i \in 1..Len(d) |-> d[i][c]]

\* Series.unique(): the distinct values
Unique(col) == {col[i] : i \in 1..Len(col)}

\* sorted(...): the values in ascending order
RECURSIVE Sorted(_)
Sorted(S) ==
    IF S = {} THEN <<>>
    ELSE LET m == CHOOSE v \in S : \A w \in S : v <= w
         IN  <<m>> \o Sorted(S \ {m})

\* data[data[x] == v]: the rows of one group
RowsOf(d, c, v) == SelectSeq(d, LAMBDA r : r[c] = v)

(***************************************************************************)
(* add_quantiles: one dashed horizontal line per quantile, each added as   *)
(* soon as it is computed.  Quantiles are in percent; Series.quantile      *)
(* raises ValueError for one outside 0 .. 100, and the column lookup       *)
(* raises KeyError without a y column.                                     *)
(***************************************************************************)
QuantileArgs == {50, 150}

RECURSIVE SeqsUpTo(_, _)
SeqsUpTo(S, n) ==
    IF n = 0 THEN {<<>>}
    ELSE LET shorter == SeqsUpTo(S, n - 1)
         IN  shorter \cup {Append(s, e) : s \in shorter, e \in S}

QuantileOk(q) == 0 <= q /\ q <= 100

RECURSIVE add_quantiles_loop(_, _, _)
add_quantiles_loop(p, yy, qs) ==
    IF qs = <<>> THEN Return(p)
    ELSE LET q == Head(qs)
         IN  IF ~HasColumn(yy) THEN Raise(p, "KeyError")
             ELSE IF ~QuantileOk(q) THEN Raise(p, "ValueError")
             ELSE add_quantiles_loop(PlotAdd(p, Directive("geom_hline", "dashed/quantile", q)),
                                     yy, Tail(qs))

add_quantiles ==
    \E qs \in SeqsUpTo(QuantileArgs, MaxQuantiles) :
        Call("add_quantiles", [quantiles |-> qs], add_quantiles_loop(plot, y, qs))

(***************************************************************************)
(* add_test_pvalue.  The group count is looked at first; the two groups'   *)
(* y values are taken next, then the test kind is dispatched, and the      *)
(* p-value is formatted last.  The p-value itself is the statistics        *)
(* library's: the annotation names the test that produced it.              *)
(***************************************************************************)
TestArgs == {"t", "wilcoxon", "anova"}

\* whether Python accepts the format specification
FormatArgs == {".3f", "q"}

FormatOk(f) == f = ".3f"

add_test_pvalue_body_nocheck(p, d, xx, yy, test, format) ==
    IF ~HasColumn(yy) THEN Raise(p, "KeyError")
    ELSE IF test \notin {"t", "wilcoxon"} THEN Raise(p, "ValueError")
    ELSE IF ~FormatOk(format) THEN Raise(p, "ValueError")
    ELSE add_text_body(p, "p = " \o (IF test = "t" THEN "ttest_ind" ELSE "ranksums"))

add_test_pvalue_body(p, d, xx, yy, test, format) ==
    LET groups == Sorted(Unique(Column(d, xx)))
    IN  IF Len(groups) # 2 THEN Warn(p)
        ELSE IF ~HasColumn(yy) THEN Raise(p, "KeyError")
        ELSE IF test \notin {"t", "wilcoxon"} THEN Raise(p, "ValueError")
        ELSE IF ~FormatOk(format) THEN Raise(p, "ValueError")
        ELSE LET g1 == Column(RowsOf(d, xx, groups[1]), yy)
                 g2 == Column(RowsOf(d, xx, groups[2]), yy)
                 stat == IF test = "t" THEN "ttest_ind" ELSE "ranksums"
             IN  add_text_body(p, "p = " \o stat)

add_test_pvalue_filtering ==
    \E test \in TestArgs, format \in FormatArgs :
        LET res == add_test_pvalue_body(plot, data, x, y, test, format)
            groups == Sorted(Unique(Column(data, x)))
        IN  /\ ncalls < MaxCalls
            /\ ncalls' = ncalls + 1
            /\ before' = plot
            /\ plot' = res.plot
            /\ last' = [op |-> "add_test_pvalue", args |-> [test |-> test, format |-> format],
                        outcome |-> res.outcome, warned |-> res.warned]
            /\ fresh' = {}
            /\ data' = IF Len(groups) = 2 THEN RowsOf(data, x, groups[1]) ELSE data
            /\ UNCHANGED <<x, y, color, mapping, files>>

add_test_pvalue ==
    \E test \in TestArgs, format \in FormatArgs :
        Call("add_test_pvalue", [test |-> test, format |-> format],
             add_test_pvalue_body(plot, data, x, y, test, format))

(***************************************************************************)
(* add_correlation_text.  The method is checked first.  pearsonr raises    *)
(* ValueError on fewer than two rows; spearmanr does not.                  *)
(***************************************************************************)
MethodArgs == {"pearson", "spearman", "kendall"}

add_correlation_text_body(p, d, xx, yy, method, format) ==
    IF method \notin {"pearson", "spearman"} THEN Raise(p, "ValueError")
    ELSE IF ~HasColumn(yy) THEN Raise(p, "KeyError")
    ELSE IF method = "pearson" /\ Len(d) < 2 THEN Raise(p, "ValueError")
    ELSE IF ~FormatOk(format) THEN Raise(p, "ValueError")
    ELSE add_text_body(p, "r,p = " \o (IF method = "pearson" THEN "pearsonr" ELSE "spearmanr"))

add_correlation_text ==
    \E method \in MethodArgs, format \in FormatArgs :
        Call("add_correlation_text", [method |-> method, format |-> format],
             add_correlation_text_body(plot, data, x, y, method, format))

(***************************************************************************)
(* adjust_ and scale_ methods.                                             *)
(***************************************************************************)
adjust_colors ==
    Call("adjust_colors", <<>>, Return(PlotAdd(plot, D("scale_color_brewer", "Blues"))))

adjust_labels ==
    Call("adjust_labels", <<>>, Return(PlotAdd(plot, D("labs", "title,x,y"))))

adjust_axis_text_angle ==
    Call("adjust_axis_text_angle", <<>>, Return(PlotAdd(plot, Directive("theme", "axis_text_x", 45))))

LegendPositions == {"right", "left", "top", "bottom", "none"}

LegendArgs == LegendPositions \cup {"middle"}

adjust_legend_position_unchecked(p, position) ==
    Return(PlotAdd(p, D("theme", "legend_position=" \o position)))

adjust_legend_position_body(p, position) ==
    IF position \notin LegendPositions
    THEN Raise(p, "ValueError")
    ELSE Return(PlotAdd(p, D("theme", "legend_position=" \o position)))

adjust_legend_position ==
    \E position \in LegendArgs :
        Call("adjust_legend_position", [position |-> position],
             adjust_legend_position_body(plot, position))

scale_x_log10 ==
    Call("scale_x_log10", <<>>, Return(PlotAdd(plot, D("scale_x_log10", ""))))

scale_y_log10 ==
    Call("scale_y_log10", <<>>, Return(PlotAdd(plot, D("scale_y_log10", ""))))

scale_x_sqrt ==
    Call("scale_x_sqrt", <<>>, Return(PlotAdd(plot, D("scale_x_sqrt", ""))))

scale_y_sqrt ==
    Call("scale_y_sqrt", <<>>, Return(PlotAdd(plot, D("scale_y_sqrt", ""))))

scale_x_reverse ==
    Call("scale_x_reverse", <<>>, Return(PlotAdd(plot, D("scale_x_reverse", ""))))

scale_y_reverse ==
    Call("scale_y_reverse", <<>>, Return(PlotAdd(plot, D("scale_y_reverse", ""))))

scale_color_gradient ==
    Call("scale_color_gradient", <<>>, Return(PlotAdd(plot, D("scale_color_gradient", "white,blue"))))

scale_color_gradient2 ==
    Call("scale_color_gradient2", <<>>,
         Return(PlotAdd(plot, D("scale_color_gradient2", "blue,white,red"))))

(***************************************************************************)
(* Output.  show returns the plot expression.  save has the renderer write *)
(* the expression to the file; the content written is a function of the    *)
(* dataset, the mapping and the directives.                                *)
(***************************************************************************)
Paths == {"a.png", "b.png"}

Render(d, m, p) == [data |-> d, mapping |-> m, directives |-> p]

Write(fs, path, content) ==
    [q \in (DOMAIN fs) \cup {path} |-> IF q = path THEN content ELSE fs[q]]

show ==
    /\ ncalls < MaxCalls
    /\ ncalls' = ncalls + 1
    /\ before' = plot
    /\ last' = [op |-> "show", args |-> <<>>, outcome |-> "plot", warned |-> FALSE]
    /\ UNCHANGED <<data, x, y, color, mapping, plot, files, fresh>>

save_adding_theme ==
    \E filename \in Paths :
        /\ ncalls < MaxCalls
        /\ ncalls' = ncalls + 1
        /\ before' = plot
        /\ plot' = PlotAdd(plot, D("theme", "dpi"))
        /\ files' = Write(files, filename, Render(data, mapping, plot'))
        /\ fresh' = fresh \cup {filename}
        /\ last' = [op |-> "save", args |-> [filename |-> filename],
                    outcome |-> "self", warned |-> FALSE]
        /\ UNCHANGED <<data, x, y, color, mapping>>

save ==
    \E filename \in Paths :
        /\ ncalls < MaxCalls
        /\ ncalls' = ncalls + 1
        /\ before' = plot
        /\ files' = Write(files, filename, Render(data, mapping, plot))
        /\ fresh' = fresh \cup {filename}
        /\ last' = [op |-> "save", args |-> [filename |-> filename],
                    outcome |-> "self", warned |-> FALSE]
        /\ UNCHANGED <<data, x, y, color, mapping, plot>>

Next ==
    \/ add_mean_bar
    \/ add_sem_errorbar
    \/ add_sd_errorbar
    \/ add_ci_errorbar
    \/ add_errorbar
    \/ add_data_points_beeswarm
    \/ add_data_points_jitter
    \/ add_violin
    \/ add_boxplot
    \/ add_density
    \/ add_density_2d
    \/ add_scatter
    \/ add_line
    \/ add_smooth
    \/ add_count
    \/ add_text
    \/ add_hline
    \/ add_vline
    \/ add_ribbon
    \/ add_rug
    \/ add_step
    \/ add_hex
    \/ add_quantiles
    \/ add_test_pvalue
    \/ add_correlation_text
    \/ adjust_colors
    \/ adjust_labels
    \/ adjust_axis_text_angle
    \/ adjust_legend_position
    \/ scale_x_log10
    \/ scale_y_log10
    \/ scale_x_sqrt
    \/ scale_y_sqrt
    \/ scale_x_reverse
    \/ scale_y_reverse
    \/ scale_color_gradient
    \/ scale_color_gradient2
    \/ show
    \/ save

Spec == Init /\ [][Next]_vars

(***************************************************************************)
(* Vocabulary of the properties.                                           *)
(***************************************************************************)
AddOps ==
    {"add_mean_bar", "add_sem_errorbar", "add_sd_errorbar", "add_ci_errorbar",
     "add_errorbar", "add_data_points_beeswarm", "add_data_points_jitter",
     "add_violin", "add_boxplot", "add_density", "add_density_2d", "add_scatter",
     "add_line", "add_smooth", "add_count", "add_text", "add_hline", "add_vline",
     "add_ribbon", "add_rug", "add_step", "add_hex", "add_quantiles",
     "add_test_pvalue", "add_correlation_text"}

AdjustOps ==
    {"adjust_colors", "adjust_labels", "adjust_axis_text_angle",
     "adjust_legend_position"}

ScaleOps ==
    {"scale_x_log10", "scale_y_log10", "scale_x_sqrt", "scale_y_sqrt",
     "scale_x_reverse", "scale_y_reverse", "scale_color_gradient",
     "scale_color_gradient2"}

\* the last call raised
Raised == last.outcome \notin {"self", "plot"}

\* the number of distinct values in the x column
NGroups == Cardinality({data[i][x] : i \in 1..Len(data)})

\* the columns a channel is bound to
BoundTo(ch) == {b[2] : b \in {c \in mapping : c[1] = ch}}

\* the last call was add_test_pvalue on a dataset without exactly two groups
PvalueSkipped == last.op = "add_test_pvalue" /\ NGroups # 2

(***************************************************************************)
(* C1, as stated: every add_* call that does not raise returns the builder *)
(* with a strictly longer directive sequence of which the previous         *)
(* sequence is a prefix.                                                   *)
(***************************************************************************)
C1_AddStrictlyLonger ==
    (last.op \in AddOps /\ ~Raised) =>
        /\ last.outcome = "self"
        /\ Len(plot) > Len(before)
        /\ IsPrefix(before, plot)

(***************************************************************************)
(* C1, amended: every add_* call that does not raise returns the builder   *)
(* and keeps the previous sequence as a prefix; the sequence is strictly   *)
(* longer except after add_test_pvalue on a dataset without exactly two    *)
(* groups and after add_quantiles with an empty list, which leave it as    *)
(* it was.                                                                 *)
(***************************************************************************)
C1_AddStrictlyLongerAmended ==
    (last.op \in AddOps /\ ~Raised) =>
        /\ last.outcome = "self"
        /\ IsPrefix(before, plot)
        /\ IF PvalueSkipped \/ (last.op = "add_quantiles" /\ last.args.quantiles = <<>>)
           THEN plot = before
           ELSE Len(plot) > Len(before)

C1_Witness ==
    /\ last.op = "add_density"
    /\ last.outcome = "self"
    /\ Len(plot) > Len(before)
    /\ ncalls = 2

(***************************************************************************)
(* C2, as stated: every add_*, adjust_* and scale_* call that does not     *)
(* raise makes the directive sequence exactly one longer.                  *)
(***************************************************************************)
C2_ExactlyOne ==
    (last.op \in AddOps \cup AdjustOps \cup ScaleOps /\ ~Raised) =>
        Len(plot) = Len(before) + 1

(***************************************************************************)
(* C2, amended: a call that does not raise appends exactly one directive,  *)
(* except add_hex, which appends three (the binning layer and two position *)
(* scales), add_quantiles, which appends one line per quantile of its      *)
(* list, and add_test_pvalue on a dataset without exactly two groups,      *)
(* which appends none.                                                     *)
(***************************************************************************)
C2_AppendCount ==
    (last.op \in AddOps \cup AdjustOps \cup ScaleOps /\ ~Raised) =>
        /\ IsPrefix(before, plot)
        /\ Len(plot) - Len(before) =
              CASE last.op = "add_hex" -> 3
                [] last.op = "add_quantiles" -> Len(last.args.quantiles)
                [] PvalueSkipped -> 0
                [] OTHER -> 1

C2_Witness ==
    /\ last.op = "add_hex"
    /\ ~Raised
    /\ Len(plot) = Len(before) + 3
    /\ plot[Len(plot)].prim = "scale_y_continuous"

(***************************************************************************)
(* C3: adjust_legend_position with a position outside right, left, top,    *)
(* bottom, none raises the invalid-argument error and leaves the directive *)
(* sequence as it was; with a position inside it appends one theme         *)
(* directive and returns the builder.                                      *)
(***************************************************************************)
C3_LegendPosition ==
    last.op = "adjust_legend_position" =>
        IF last.args.position \notin {"right", "left", "top", "bottom", "none"}
        THEN last.outcome = "ValueError" /\ plot = before
        ELSE /\ last.outcome = "self"
             /\ Len(plot) = Len(before) + 1
             /\ IsPrefix(before, plot)
             /\ plot[Len(plot)].prim = "theme"

C3_Witness ==
    /\ last.op = "adjust_legend_position"
    /\ last.args.position = "middle"
    /\ last.outcome = "ValueError"
    /\ Len(before) > Len(InitPlot(y, color))

(***************************************************************************)
(* C4, as stated: add_test_pvalue on a dataset whose x column does not     *)
(* have exactly two distinct values warns, raises nothing, returns the     *)
(* builder and leaves the directive sequence as it was; with exactly two   *)
(* and a valid test kind it appends exactly one text annotation.           *)
(***************************************************************************)
C4_Pvalue ==
    last.op = "add_test_pvalue" =>
        IF NGroups # 2
        THEN last.warned /\ last.outcome = "self" /\ plot = before
        ELSE last.args.test \in {"t", "wilcoxon"} =>
                /\ last.outcome = "self"
                /\ plot = Append(before, plot[Len(plot)])
                /\ plot[Len(plot)].prim = "annotate_text"

(***************************************************************************)
(* C4, amended: as C4, the second half for a builder that has a y column   *)
(* and a call whose format specification is valid: without a y column the  *)
(* lookup of the groups' values raises, and an invalid format raises when  *)
(* the p-value is formatted, both before anything is appended.             *)
(***************************************************************************)
C4_PvalueAmended ==
    last.op = "add_test_pvalue" =>
        IF NGroups # 2
        THEN last.warned /\ last.outcome = "self" /\ plot = before
        ELSE IF last.args.test \in {"t", "wilcoxon"} /\ y # None /\ FormatOk(last.args.format)
             THEN /\ last.outcome = "self"
                  /\ ~last.warned
                  /\ plot = Append(before, plot[Len(plot)])
                  /\ plot[Len(plot)].prim = "annotate_text"
             ELSE Raised /\ plot = before

C4_Witness ==
    /\ last.op = "add_test_pvalue"
    /\ NGroups = 3
    /\ last.warned
    /\ plot = before

(***************************************************************************)
(* C5, as stated: an unrecognized enumerated value always raises the       *)
(* invalid-argument error, whatever the dataset: add_test_pvalue with a    *)
(* test kind other than t and wilcoxon, add_correlation_text with a method *)
(* other than pearson and spearman; nothing is appended.                   *)
(***************************************************************************)
C5_BadEnumRaises ==
    /\ (last.op = "add_test_pvalue" /\ last.args.test \notin {"t", "wilcoxon"}) =>
            (last.outcome = "ValueError" /\ plot = before)
    /\ (last.op = "add_correlation_text" /\ last.args.method \notin {"pearson", "spearman"}) =>
            (last.outcome = "ValueError" /\ plot = before)

(***************************************************************************)
(* C6: the grouping column is bound to exactly one channel: to fill when   *)
(* there is no y, to color when there is; without a color argument neither *)
(* channel is bound.  x is always bound, y exactly when it is given.       *)
(***************************************************************************)
C6_ChannelByY ==
    /\ (color # None /\ y = None) => (BoundTo("fill") = {color} /\ BoundTo("color") = {})
    /\ (color # None /\ y # None) => (BoundTo("color") = {color} /\ BoundTo("fill") = {})
    /\ color = None => (BoundTo("color") = {} /\ BoundTo("fill") = {})
    /\ BoundTo("x") = {x}
    /\ BoundTo("y") = (IF y = None THEN {} ELSE {y})

C6_Witness ==
    /\ ncalls = 0
    /\ color = "g"
    /\ y = None
    /\ <<"fill", "g">> \in mapping

(***************************************************************************)
(* C7: the plot expression is append-only and in call order: every step    *)
(* keeps the directives already there, at their positions, so that what a  *)
(* call contributes comes after everything earlier calls contributed.      *)
(***************************************************************************)
C7_AppendOnly ==
    [][/\ Len(plot) <= Len(plot')
       /\ \A i \in 1..Len(plot) : plot'[i] = plot[i]]_vars

C7_Witness ==
    /\ ncalls = 2
    /\ Len(plot) > Len(before)
    /\ Len(before) > Len(InitPlot(y, color))
    /\ plot[Len(plot)] # plot[Len(before)]

C9_DataAndMappingFixed ==
    [][/\ data' = data
       /\ x' = x /\ y' = y /\ color' = color
       /\ mapping' = mapping]_vars

C9_Witness ==
    /\ last.op = "add_test_pvalue"
    /\ NGroups = 2
    /\ Len(plot) > Len(before)
    /\ ncalls = 2

(***************************************************************************)
(* C10, as stated: whenever a method raises, the directive sequence is     *)
(* what it was before the call.                                            *)
(***************************************************************************)
C10_FailureAtomic ==
    Raised => plot = before

=============================================================================
